---- MODULE Spec2Model ----
(***************************************************************************)
(* Session / process lifecycle of QwenCodeAgent (src/src/utils.ts).        *)
(*                                                                         *)
(* One step of the model is one turn of the Node.js event loop: the         *)
(* synchronous body of a request or event handler followed by the promise  *)
(* continuations (microtasks) it makes runnable.  The points where the     *)
(* code really suspends are the await of processWithQwenCode's promise and *)
(* the awaits of client.sessionUpdate.                                     *)
(***************************************************************************)
EXTENDS Naturals, Integers, Sequences, FiniteSets, TLC

\* ------------------------------------------------------------------ bounds
MaxSessions == 1   \* sessions created by newSession
MaxInv == 3        \* prompt calls accepted in one run
MaxData == 1       \* stream data events in one run

\* ------------------------------------------------------------- text values
\* A text is a sequence of one-character strings.
Null == "null"
NL == "\n"

DebugTag == <<"[", "D", "E", "B", "U", "G", "]">>
FlushTag == <<"F", "l", "u", "s", "h", "i", "n", "g", " ", "l", "o", "g", " ",
              "e", "v", "e", "n", "t", "s">>

\* String.prototype.includes
Includes(line, pat) ==
    \E k \in 0..(Len(line) - Len(pat)) : SubSeq(line, k + 1, k + Len(pat)) = pat

\* String.prototype.split("\n")
RECURSIVE Split(_)
Split(s) ==
    IF s = <<>> THEN << <<>> >>
    ELSE LET rest == Split(Tail(s))
         IN  IF Head(s) = NL THEN << <<>> >> \o rest
             ELSE << <<Head(s)>> \o Head(rest) >> \o Tail(rest)

\* Array.prototype.join("\n")
RECURSIVE Join(_)
Join(ls) ==
    IF ls = <<>> THEN <<>>
    ELSE IF Len(ls) = 1 THEN ls[1]
    ELSE ls[1] \o <<NL>> \o Join(Tail(ls))

IsSpace(c) == c \in {" ", NL}

\* String.prototype.trim
RECURSIVE TrimStart(_)
TrimStart(s) ==
    IF s # <<>> /\ IsSpace(Head(s)) THEN TrimStart(Tail(s)) ELSE s

RECURSIVE TrimEnd(_)
TrimEnd(s) ==
    IF s # <<>> /\ IsSpace(s[Len(s)]) THEN TrimEnd(SubSeq(s, 1, Len(s) - 1)) ELSE s

Trim(s) == TrimEnd(TrimStart(s))

\* the filter predicate of the data, exit and timeout handlers
KeepLine(line) == ~Includes(line, DebugTag) /\ ~Includes(line, FlushTag)

\* Array.prototype.filter with KeepLine
RECURSIVE FilterLines(_)
FilterLines(ls) ==
    IF ls = <<>> THEN <<>>
    ELSE IF KeepLine(Head(ls)) THEN <<Head(ls)>> \o FilterLines(Tail(ls))
    ELSE FilterLines(Tail(ls))

\* data.split("\n").filter(...).join("\n") of the stdout handler
cleanData(data) == Join(FilterLines(Split(data)))

\* outputBuffer.split("\n").filter(...).join("\n").trim()
cleanOutput(outputBuffer) == Trim(cleanData(outputBuffer))

\* the lines of one stderr data event that are surfaced to the client
RECURSIVE InfoLines(_)
InfoLines(ls) ==
    IF ls = <<>> THEN <<>>
    ELSE IF Trim(Head(ls)) # <<>> /\ KeepLine(Head(ls))
         THEN <<Head(ls)>> \o InfoLines(Tail(ls))
    ELSE InfoLines(Tail(ls))

\* what the external process may write in one data event
StdoutChunks ==
    { <<"h", "i", NL>>,
      <<"[", "D", "E", "B", "U", "G", "]", " ", "x", NL>> }

StderrChunks ==
    { <<"e", "1", NL, "e", "2", NL>> }


\* ------------------------------------------------------------------- state
VARIABLES
    sessions,   \* this.sessions: session id -> SessionData (ids are 1..Len)
    inv,        \* one record per accepted prompt call (its closure and child)
    stderrQ,    \* stderr data handlers suspended in their for-await loop
    out,        \* client.sessionUpdate calls made by the current step
    reply,      \* how the request or delivery handled by the current step ended
    nData       \* data events delivered so far

vars == <<sessions, inv, stderrQ, out, reply, nData>>

NoReply == [op |-> "none", sessionId |-> 0, error |-> "none"]
PromptText == <<"p">>

SpawnResults == {"ok", "error", "nostreams"}

\* (code, signal) arguments of the child's 'exit' event
ExitStatuses ==
    { [code |-> "0", signal |-> Null],
      [code |-> "1", signal |-> Null],
      [code |-> Null, signal |-> "SIGTERM"] }

\* what a promise settles with: null, a text, or an Error
NullValue == [kind |-> "null", text |-> <<>>]
TextValue(t) == [kind |-> "text", text |-> t]
ErrorValue(msg, detail) == [kind |-> msg, text |-> detail]

Pending == [state |-> "pending", value |-> NullValue, by |-> "none"]

\* `Error: ${errorMessage}\n` of the catch block of handlePrompt
ErrorText(e) == <<"Error: ", e.kind>> \o e.text \o <<NL>>

\* `[INFO] ${line}\n` of the stderr data handler
InfoText(line) == <<"[", "I", "N", "F", "O", "]", " ">> \o line \o <<NL>>

\* the state a prompt call starts with: a fresh AbortController, no child yet
NewInvocation(sid) ==
    [ sid          |-> sid,
      aborted      |-> FALSE,      \* pendingPrompt.signal.aborted
      listener     |-> FALSE,      \* abortHandler is registered on the signal
      promise      |-> Pending,    \* the promise of processWithQwenCode
      phase        |-> "awaitProc",\* awaitProc | awaitSend | returned
      stopReason   |-> "none",
      proc         |-> "none",     \* none | running | failed | nostreams | exited
      killed       |-> FALSE,      \* qwenProcess.killed
      termSent     |-> FALSE,      \* SIGTERM was delivered to the child
      timer        |-> FALSE,      \* the 60 s timer is armed
      outputBuffer |-> <<>>,
      errorBuffer  |-> <<>>,
      sent         |-> <<>> ]      \* client.sessionUpdate calls made for it

\* the mutable world a handler body works on
World == [sessions |-> sessions, inv |-> inv, stderrQ |-> stderrQ, out |-> <<>>]

Commit(w, r) ==
    /\ sessions' = w.sessions
    /\ inv' = w.inv
    /\ stderrQ' = w.stderrQ
    /\ out' = w.out
    /\ reply' = r

\* ------------------------------------------------------- runtime primitives
\* mutant: a later resolve()/reject() replaces the earlier settlement
Settle_LastWins(p, state, value, by) ==
    [state |-> state, value |-> value, by |-> by]

\* resolve()/reject() of a promise: only the first settlement counts
Settle(p, state, value, by) ==
    IF p.state = "pending" THEN [state |-> state, value |-> value, by |-> by] ELSE p

\* ChildProcess.kill("SIGTERM"): delivered only to a child that is running
kill(I, p) ==
    IF I[p].proc = "running"
    THEN [I EXCEPT ![p].killed = TRUE, ![p].termSent = TRUE]
    ELSE I

\* this.sendSessionUpdate: the notification is handed to the client at once
sendSessionUpdate(w, sid, c, src, text) ==
    [w EXCEPT !.out = Append(@, [sessionId |-> sid, inv |-> c, src |-> src, text |-> text]),
              !.inv[c].sent = Append(@, [src |-> src, text |-> text])]

\* how the client connection settles one sessionUpdate call
DeliveryResults == {"ok", "failed"}

\* mutant: a failed delivery is thrown on to the caller
sendSessionUpdateSettled_Rethrow(delivery) ==
    IF delivery = "failed" THEN "rejected" ELSE "fulfilled"

\* the promise of this.sendSessionUpdate once client.sessionUpdate has
\* settled: a failure is caught and logged
sendSessionUpdateSettled(delivery) ==
    IF delivery = "failed" THEN "fulfilled" ELSE "fulfilled"

\* ------------------------------------------------------ processWithQwenCode
abortHandler(w, c) ==
    LET sid == w.inv[c].sid
        q == w.sessions[sid].qwenProcess
        w1 == IF q # 0
              THEN [w EXCEPT !.inv = kill(@, q), !.sessions[sid].qwenProcess = 0]
              ELSE w
    IN  [w1 EXCEPT !.inv[c].promise = Settle(@, "resolved", NullValue, "abort")]

\* AbortController.abort(): fires the 'abort' listeners once
abort(w, c) ==
    IF w.inv[c].aborted THEN w
    ELSE LET w1 == [w EXCEPT !.inv[c].aborted = TRUE]
         IN  IF w.inv[c].listener THEN abortHandler(w1, c) ELSE w1

cleanup(w, c) ==
    [w EXCEPT !.inv[c].listener = FALSE,
              !.sessions[w.inv[c].sid].qwenProcess = 0]

processWithQwenCode(w, c, spawnResult) ==
    IF w.inv[c].aborted
    THEN [w EXCEPT !.inv[c].promise = Settle(@, "resolved", NullValue, "preaborted")]
    ELSE LET w1 == [w EXCEPT
                      !.inv[c].listener = TRUE,
                      !.inv[c].proc = CASE spawnResult = "ok" -> "running"
                                        [] spawnResult = "error" -> "failed"
                                        [] OTHER -> "nostreams",
                      !.sessions[w.inv[c].sid].qwenProcess = c]
         IN  IF spawnResult = "nostreams"
             THEN [w1 EXCEPT !.inv[c].promise =
                       Settle(@, "rejected", ErrorValue("Failed to create Qwen Code process streams", <<>>), "streams")]
             ELSE [w1 EXCEPT !.inv[c].timer = TRUE]

onStdoutData(w, c, data) ==
    LET w1 == [w EXCEPT !.inv[c].outputBuffer = @ \o data]
    IN  IF Trim(cleanData(data)) # <<>>
        THEN sendSessionUpdate(w1, w.inv[c].sid, c, "stdout", cleanData(data))
        ELSE w1

onStderrData(w, c, data) ==
    LET w1 == [w EXCEPT !.inv[c].errorBuffer = @ \o data]
        lines == InfoLines(Split(data))
    IN  IF lines = <<>> THEN w1
        ELSE LET w2 == sendSessionUpdate(w1, w.inv[c].sid, c, "stderr", InfoText(Head(lines)))
             IN  IF Tail(lines) = <<>> THEN w2
                 ELSE [w2 EXCEPT !.stderrQ = Append(@, [inv |-> c, lines |-> Tail(lines)])]

\* the for loop of a stderr handler resumes after its awaited delivery; a
\* rejected await would end the handler
onStderrResume(w, k, delivery) ==
    LET h == w.stderrQ[k]
        rest == [j \in 1..(Len(w.stderrQ) - 1) |->
                    IF j < k THEN w.stderrQ[j] ELSE w.stderrQ[j + 1]]
        w1 == sendSessionUpdate([w EXCEPT !.stderrQ = rest],
                                w.inv[h.inv].sid, h.inv, "stderr", InfoText(Head(h.lines)))
    IN  IF sendSessionUpdateSettled(delivery) = "rejected"
        THEN [w EXCEPT !.stderrQ = rest]
        ELSE IF Tail(h.lines) = <<>> THEN w1
        ELSE [w1 EXCEPT !.stderrQ = Append(@, [inv |-> h.inv, lines |-> Tail(h.lines)])]

\* mutant: a successful exit resolves with the raw accumulated output
onExit_Raw(w, c, st) ==
    LET w1 == cleanup([w EXCEPT !.inv[c].proc = "exited"], c)
        i == w1.inv[c]
    IN  IF st.signal = "SIGTERM" \/ i.aborted
        THEN [w1 EXCEPT !.inv[c].promise = Settle(@, "resolved", NullValue, "exit-terminated")]
        ELSE IF st.code = "0"
        THEN [w1 EXCEPT !.inv[c].promise =
                  Settle(@, "resolved", TextValue(i.outputBuffer), "exit-ok")]
        ELSE LET errorMsg == IF Trim(i.errorBuffer) # <<>> THEN Trim(i.errorBuffer)
                             ELSE <<"Process exited with code", st.code>>
             IN  [w1 EXCEPT !.inv[c].promise =
                       Settle(@, "rejected", ErrorValue("Qwen Code failed", errorMsg), "exit-failed")]

onExit(w, c, st) ==
    LET w1 == cleanup([w EXCEPT !.inv[c].proc = "exited"], c)
        i == w1.inv[c]
    IN  IF st.signal = "SIGTERM" \/ i.aborted
        THEN [w1 EXCEPT !.inv[c].promise = Settle(@, "resolved", NullValue, "exit-terminated")]
        ELSE IF st.code = "0"
        THEN IF cleanOutput(i.outputBuffer) # <<>>
             THEN [w1 EXCEPT !.inv[c].promise =
                       Settle(@, "resolved", TextValue(cleanOutput(i.outputBuffer)), "exit-ok")]
             ELSE [w1 EXCEPT !.inv[c].promise =
                       Settle(@, "resolved", TextValue(<<"Request completed successfully.">>), "exit-ok")]
        ELSE LET errorMsg == IF Trim(i.errorBuffer) # <<>> THEN Trim(i.errorBuffer)
                             ELSE <<"Process exited with code", st.code>>
             IN  [w1 EXCEPT !.inv[c].promise =
                       Settle(@, "rejected", ErrorValue("Qwen Code failed", errorMsg), "exit-failed")]

onError(w, c) ==
    LET w1 == cleanup(w, c)
    IN  [w1 EXCEPT !.inv[c].promise =
             Settle(@, "rejected", ErrorValue("Failed to start Qwen Code", <<>>), "error")]

\* mutant: the timer kills the child but settles nothing
onTimeout_KillOnly(w, c) ==
    LET i == w.inv[c]
    IN  IF ~i.aborted /\ ~i.killed
        THEN cleanup([w EXCEPT !.inv = kill(@, c)], c)
        ELSE w

\* mutant: the timer resolves with the raw accumulated output
onTimeout_Raw(w, c) ==
    LET i == w.inv[c]
    IN  IF ~i.aborted /\ ~i.killed
        THEN LET w1 == cleanup([w EXCEPT !.inv = kill(@, c)], c)
             IN  IF i.outputBuffer # <<>>
                 THEN [w1 EXCEPT !.inv[c].promise =
                           Settle(@, "resolved", TextValue(i.outputBuffer), "timeout-partial")]
                 ELSE [w1 EXCEPT !.inv[c].promise =
                           Settle(@, "rejected", ErrorValue("Timeout waiting for response from Qwen Code", <<>>), "timeout")]
        ELSE w

onTimeout(w, c) ==
    LET i == w.inv[c]
    IN  IF ~i.aborted /\ ~i.killed
        THEN LET w1 == cleanup([w EXCEPT !.inv = kill(@, c)], c)
             IN  IF cleanOutput(i.outputBuffer) # <<>>
                 THEN [w1 EXCEPT !.inv[c].promise =
                           Settle(@, "resolved", TextValue(cleanOutput(i.outputBuffer)), "timeout-partial")]
                 ELSE [w1 EXCEPT !.inv[c].promise =
                           Settle(@, "rejected", ErrorValue("Timeout waiting for response from Qwen Code", <<>>), "timeout")]
        ELSE w


\* ------------------------------------------------------------ handlePrompt
\* the finally block and the return of handlePrompt
handlePromptReturn(w, c, stopReason) ==
    [w EXCEPT !.inv[c].phase = "returned",
              !.inv[c].stopReason = stopReason,
              !.sessions[w.inv[c].sid].pendingPrompt = 0]

\* mutant: the catch block returns without telling the client
handlePromptResume_Silent(w, c) ==
    LET i == w.inv[c]
        response == i.promise.value
    IN  IF i.promise.state = "resolved"
        THEN LET w1 == IF response.kind = "text" /\ response.text # <<>>
                       THEN [w EXCEPT !.sessions[i.sid].conversationHistory =
                                Append(@, [role |-> "Assistant", inv |-> c,
                                           text |-> response.text])]
                       ELSE w
             IN  handlePromptReturn(w1, c, "end_turn")
        ELSE IF i.aborted
        THEN handlePromptReturn(w, c, "cancelled")
        ELSE handlePromptReturn(w, c, "end_turn")

\* mutant: whatever the invocation resolved with is pushed as assistant turn
handlePromptResume_AlwaysPush(w, c) ==
    LET i == w.inv[c]
        response == i.promise.value
    IN  IF i.promise.state = "resolved"
        THEN LET w1 == [w EXCEPT !.sessions[i.sid].conversationHistory =
                            Append(@, [role |-> "Assistant", inv |-> c,
                                       text |-> response.text])]
             IN  handlePromptReturn(w1, c, "end_turn")
        ELSE IF i.aborted
        THEN handlePromptReturn(w, c, "cancelled")
        ELSE [sendSessionUpdate(w, i.sid, c, "error", ErrorText(response))
                 EXCEPT !.inv[c].phase = "awaitSend"]

\* handlePrompt after `await this.processWithQwenCode(...)` has settled
handlePromptResume(w, c) ==
    LET i == w.inv[c]
        response == i.promise.value
    IN  IF i.promise.state = "resolved"
        THEN LET w1 == IF response.kind = "text" /\ response.text # <<>>
                       THEN [w EXCEPT !.sessions[i.sid].conversationHistory =
                                Append(@, [role |-> "Assistant", inv |-> c,
                                           text |-> response.text])]
                       ELSE w
             IN  handlePromptReturn(w1, c, "end_turn")
        ELSE IF i.aborted
        THEN handlePromptReturn(w, c, "cancelled")
        ELSE [sendSessionUpdate(w, i.sid, c, "error", ErrorText(response))
                 EXCEPT !.inv[c].phase = "awaitSend"]

\* handlePrompt after the awaited error notification of the catch block; a
\* rejected await would make the prompt call throw out of the catch block
handlePromptAfterSend(w, c, delivery) ==
    IF sendSessionUpdateSettled(delivery) = "rejected"
    THEN handlePromptReturn(w, c, "thrown")
    ELSE handlePromptReturn(w, c, "end_turn")

\* the promise continuations made runnable by a handler run before any other
\* event is handled, in the order their promises settled
RECURSIVE RunFrom(_, _)
RunFrom(w, c) ==
    IF c > Len(w.inv) THEN w
    ELSE IF w.inv[c].phase = "awaitProc" /\ w.inv[c].promise.state # "pending"
    THEN RunFrom(handlePromptResume(w, c), c + 1)
    ELSE RunFrom(w, c + 1)

Microtasks(w) == RunFrom(w, 1)

\* handlePrompt up to its first await; a spawn failure is reported by the
\* child's 'error' event on the next tick
handlePrompt(w, sid, spawnResult) ==
    LET p == w.sessions[sid].pendingPrompt
        w1 == IF p # 0 THEN abort(w, p) ELSE w
        c == Len(w.inv) + 1
        w2 == [w1 EXCEPT !.inv = Append(@, NewInvocation(sid)),
                         !.sessions[sid].pendingPrompt = c]
        w3 == [w2 EXCEPT !.sessions[sid].conversationHistory =
                   Append(@, [role |-> "User", inv |-> c, text |-> PromptText])]
        w4 == processWithQwenCode(w3, c, spawnResult)
    IN  IF w4.inv[c].proc = "failed" THEN onError(w4, c) ELSE w4

\* mutant: an unknown id falls back to the first session
prompt_Fallback(w, sid, spawnResult) ==
    IF sid \notin DOMAIN w.sessions /\ w.sessions = <<>>
    THEN [w |-> w, error |-> "Session not found"]
    ELSE [w |-> handlePrompt(w, IF sid \in DOMAIN w.sessions THEN sid ELSE 1, spawnResult),
          error |-> "none"]

prompt(w, sid, spawnResult) ==
    IF sid \notin DOMAIN w.sessions
    THEN [w |-> w, error |-> "Session not found"]
    ELSE [w |-> handlePrompt(w, sid, spawnResult), error |-> "none"]

\* mutant: the pendingPrompt check is missing, the child is killed anyway
cancelSession_NoGuard(w, sid) ==
    LET p == w.sessions[sid].pendingPrompt
        w1 == IF p # 0 THEN [abort(w, p) EXCEPT !.sessions[sid].pendingPrompt = 0] ELSE w
        q == w1.sessions[sid].qwenProcess
    IN  [w |-> IF q # 0
               THEN [w1 EXCEPT !.inv = kill(@, q), !.sessions[sid].qwenProcess = 0]
               ELSE w1,
         error |-> "none"]

cancelSession(w, sid) ==
    LET p == w.sessions[sid].pendingPrompt
    IN  IF p = 0
        THEN [w |-> w, error |-> "Not currently generating"]
        ELSE LET w1 == [abort(w, p) EXCEPT !.sessions[sid].pendingPrompt = 0]
                 q == w1.sessions[sid].qwenProcess
             IN  [w |-> IF q # 0
                        THEN [w1 EXCEPT !.inv = kill(@, q),
                                        !.sessions[sid].qwenProcess = 0]
                        ELSE w1,
                  error |-> "none"]

cancel(w, sid) ==
    IF sid \notin DOMAIN w.sessions
    THEN [w |-> w, error |-> "Session not found"]
    ELSE cancelSession(w, sid)

newSession(w) ==
    [w EXCEPT !.sessions = Append(@, [pendingPrompt |-> 0, qwenProcess |-> 0,
                                      conversationHistory |-> <<>>])]

\* ----------------------------------------------------------------- actions
\* session ids a client may name: the registered ones and one that never is
SessionIds == 1..(MaxSessions + 1)

Init ==
    /\ sessions = <<>>
    /\ inv = <<>>
    /\ stderrQ = <<>>
    /\ out = <<>>
    /\ reply = NoReply
    /\ nData = 0

NewSession ==
    /\ Len(sessions) < MaxSessions
    /\ Commit(newSession(World),
              [op |-> "newSession", sessionId |-> Len(sessions) + 1, error |-> "none"])
    /\ UNCHANGED nData

Prompt(sid, spawnResult) ==
    /\ Len(inv) < MaxInv
    /\ LET r == prompt(World, sid, spawnResult)
       IN  Commit(Microtasks(r.w), [op |-> "prompt", sessionId |-> sid, error |-> r.error])
    /\ UNCHANGED nData

Cancel(sid) ==
    /\ LET r == cancel(World, sid)
       IN  Commit(Microtasks(r.w), [op |-> "cancel", sessionId |-> sid, error |-> r.error])
    /\ UNCHANGED nData

StdoutData(c, data) ==
    /\ inv[c].proc = "running"
    /\ nData' = nData + 1
    /\ Commit(Microtasks(onStdoutData(World, c, data)), NoReply)

StderrData(c, data) ==
    /\ inv[c].proc = "running"
    /\ nData' = nData + 1
    /\ Commit(Microtasks(onStderrData(World, c, data)), NoReply)

\* result of a sessionUpdate call as the step that handles it sees it
Delivered(sid, delivery) ==
    [op |-> "sessionUpdate", sessionId |-> sid,
     error |-> IF delivery = "failed" THEN "delivery failed" ELSE "none"]

StderrResume(k, delivery) ==
    /\ Commit(Microtasks(onStderrResume(World, k, delivery)),
              Delivered(inv[stderrQ[k].inv].sid, delivery))
    /\ UNCHANGED nData

Exit(c, st) ==
    /\ inv[c].proc = "running"
    /\ Commit(Microtasks(onExit(World, c, st)), NoReply)
    /\ UNCHANGED nData

\* the timers all run 60 s, so they fire in the order they were armed
Timeout(c) ==
    /\ inv[c].timer
    /\ \A j \in 1..(c - 1) : ~inv[j].timer
    /\ Commit(Microtasks(onTimeout([World EXCEPT !.inv[c].timer = FALSE], c)), NoReply)
    /\ UNCHANGED nData

CatchSendDone(c, delivery) ==
    /\ inv[c].phase = "awaitSend"
    /\ Commit(Microtasks(handlePromptAfterSend(World, c, delivery)),
              Delivered(inv[c].sid, delivery))
    /\ UNCHANGED nData

Next ==
    \/ NewSession
    \/ \E sid \in SessionIds, r \in SpawnResults : Prompt(sid, r)
    \/ \E sid \in SessionIds : Cancel(sid)
    \/ \E c \in DOMAIN inv, d \in StdoutChunks : nData < MaxData /\ StdoutData(c, d)
    \/ \E c \in DOMAIN inv, d \in StderrChunks : nData < MaxData /\ StderrData(c, d)
    \/ \E k \in DOMAIN stderrQ, dl \in DeliveryResults : StderrResume(k, dl)
    \/ \E c \in DOMAIN inv, st \in ExitStatuses : Exit(c, st)
    \/ \E c \in DOMAIN inv : Timeout(c)
    \/ \E c \in DOMAIN inv, dl \in DeliveryResults : CatchSendDone(c, dl)

Spec == Init /\ [][Next]_vars

\* The event loop runs every armed timer when its 60 s are over, and the
\* client connection settles every sessionUpdate call.  Nothing is assumed
\* about the child process or about the requests the client makes.
MaxLiveInv == 2    \* prompt calls accepted in one run of FairSpec

\* Next without the stream data events, which settle no promise
LiveNext ==
    \/ NewSession
    \/ \E sid \in SessionIds, r \in SpawnResults : Len(inv) < MaxLiveInv /\ Prompt(sid, r)
    \/ \E sid \in SessionIds : Cancel(sid)
    \/ \E c \in DOMAIN inv, st \in ExitStatuses : Exit(c, st)
    \/ \E c \in DOMAIN inv : Timeout(c)
    \/ \E c \in DOMAIN inv, dl \in DeliveryResults : CatchSendDone(c, dl)

FairSpec ==
    /\ Init /\ [][LiveNext]_vars
    /\ WF_vars(\E c \in DOMAIN inv : Timeout(c))
    /\ WF_vars(\E c \in DOMAIN inv, dl \in DeliveryResults : CatchSendDone(c, dl))

\* ------------------------------------------------- one child, split streams
\* StreamSpec follows the prompts of one session whose children write a fixed
\* text to each stream, cut into data events at any positions.
MaxStreamInv == 1    \* prompt calls accepted in one run of StreamSpec
MaxStreamData == 3   \* stream data events in one run of StreamSpec

\* what a child writes to its standard output and standard error in all
StdoutText == <<"h", NL, "[", "D", "E", "B", "U", "G", "]", NL, "w", NL>>
StderrText == <<"1", NL, "2", NL, "3", NL>>

\* the data events that can come next when `written` has been received
NextChunks(text, written) ==
    { SubSeq(text, Len(written) + 1, Len(written) + n) :
          n \in 1..(Len(text) - Len(written)) }

StreamExitStatuses == ExitStatuses \cup { [code |-> Null, signal |-> "SIGKILL"] }

StreamNext ==
    \/ NewSession
    \/ \E sid \in SessionIds : Len(inv) < MaxStreamInv /\ Prompt(sid, "ok")
    \/ \E sid \in SessionIds : Cancel(sid)
    \/ \E c \in DOMAIN inv : \E d \in NextChunks(StdoutText, inv[c].outputBuffer) :
          nData < MaxStreamData /\ StdoutData(c, d)
    \/ \E c \in DOMAIN inv : \E d \in NextChunks(StderrText, inv[c].errorBuffer) :
          nData < MaxStreamData /\ StderrData(c, d)
    \/ \E k \in DOMAIN stderrQ, dl \in DeliveryResults : StderrResume(k, dl)
    \/ \E c \in DOMAIN inv, st \in StreamExitStatuses : Exit(c, st)
    \/ \E c \in DOMAIN inv : Timeout(c)
    \/ \E c \in DOMAIN inv, dl \in DeliveryResults : CatchSendDone(c, dl)

StreamSpec == Init /\ [][StreamNext]_vars


\* ================================================================== claims
Invs(sid) == {c \in DOMAIN inv : inv[c].sid = sid}
\* children of a session that run and were never sent SIGTERM
LiveChildren(sid) == {c \in Invs(sid) : inv[c].proc = "running" /\ ~inv[c].termSent}

\* C1: on every session, at most one spawned child is running without having
\* been sent the termination signal (a new prompt terminates the child of the
\* prompt it preempts before it spawns its own).
C1_AtMostOneLiveChild ==
    \A sid \in DOMAIN sessions : Cardinality(LiveChildren(sid)) <= 1

\* C2: a prompt whose invocation was resolved by its cancellation signal (a
\* cancel call or a preempting prompt, before the child exited) returns the
\* stop reason "cancelled".
C2_CancelledStopReason ==
    \A c \in DOMAIN inv :
        (inv[c].phase = "returned" /\ inv[c].promise.by = "abort")
            => inv[c].stopReason = "cancelled"


\* C3: every accepted prompt call eventually returns a stop reason, whatever
\* the child does and however cancel and prompt calls interleave, given that
\* armed timers fire and notification deliveries settle.
C3_EveryPromptReturns ==
    \A c \in 1..MaxLiveInv :
        (c \in DOMAIN inv) ~> (c \in DOMAIN inv /\ inv[c].stopReason # "none")


\* C3 witness: a prompt has returned although its child never exited
C3_Witness ==
    \E c \in DOMAIN inv :
        /\ inv[c].stopReason # "none"
        /\ inv[c].proc = "running"
        /\ inv[c].promise.by = "timeout"


\* C4: a prompt call naming an unregistered session id fails with "Session
\* not found", spawns no child, sends no notification and leaves every
\* registered session (handles, history) and every invocation unchanged.
C4_UnknownSessionPrompt ==
    [][ (reply'.op = "prompt" /\ reply'.sessionId \notin DOMAIN sessions)
            => /\ reply'.error = "Session not found"
               /\ out' = <<>>
               /\ sessions' = sessions
               /\ inv' = inv
               /\ stderrQ' = stderrQ ]_vars

\* C4 witness: the call was refused while a registered session held handles
C4_Witness ==
    /\ reply.op = "prompt"
    /\ reply.error = "Session not found"
    /\ \E sid \in DOMAIN sessions :
          sessions[sid].pendingPrompt # 0 /\ sessions[sid].qwenProcess # 0

\* C5: a cancel call on a registered session without an active cancellation
\* handle fails with "Not currently generating", spawns nothing, signals no
\* child, sends no notification and leaves handles and history unchanged.
C5_CancelWhenIdle ==
    [][ \A sid \in DOMAIN sessions :
          (reply'.op = "cancel" /\ reply'.sessionId = sid
              /\ sessions[sid].pendingPrompt = 0)
            => /\ reply'.error = "Not currently generating"
               /\ out' = <<>>
               /\ sessions' = sessions
               /\ inv' = inv
               /\ stderrQ' = stderrQ ]_vars

\* C5 witness: the call was refused on a session whose history is not empty
\* and whose child is still running
C5_Witness ==
    /\ reply.op = "cancel"
    /\ reply.error = "Not currently generating"
    /\ \E c \in DOMAIN inv :
          inv[c].sid = reply.sessionId /\ inv[c].proc = "running" /\ ~inv[c].termSent


\* notifications of the step just taken that report invocation c's error
ErrorsSent(o, c) == {k \in DOMAIN o : o[k].inv = c /\ o[k].src = "error"}
AssistantTurns(h, c) == {k \in DOMAIN h : h[k].role = "Assistant" /\ h[k].inv = c}

\* C6: when an invocation is rejected (non-zero exit, spawn error, missing
\* streams, timeout without output) and was not cancelled, the prompt call
\* sends exactly one notification carrying the error to its session, in the
\* step of the rejection and in no other, and then returns "end_turn"
\* without an assistant turn.
C6_FailureReported ==
    [][ \A c \in DOMAIN inv' :
          LET before == IF c \in DOMAIN inv THEN inv[c] ELSE NewInvocation(inv'[c].sid)
              after == inv'[c]
              fails == /\ before.promise.state = "pending"
                       /\ after.promise.state = "rejected"
                       /\ ~after.aborted
          IN  /\ fails =>
                    /\ Cardinality(ErrorsSent(out', c)) = 1
                    /\ \A k \in ErrorsSent(out', c) :
                          /\ out'[k].sessionId = after.sid
                          /\ out'[k].text = <<"Error: ", after.promise.value.kind>>
                                              \o after.promise.value.text \o <<NL>>
                    /\ after.phase = "awaitSend"
              /\ ~fails => ErrorsSent(out', c) = {}
              /\ (after.promise.state = "rejected" /\ after.phase = "returned") =>
                    /\ after.stopReason = "end_turn"
                    /\ AssistantTurns(sessions'[after.sid].conversationHistory, c) = {}
              /\ (before.phase = "awaitSend") => after.phase \in {"awaitSend", "returned"} ]_vars

\* C6 witness: a prompt whose invocation failed has returned end_turn
C6_Witness ==
    \E c \in DOMAIN inv :
        /\ inv[c].promise.state = "rejected"
        /\ inv[c].phase = "returned"
        /\ inv[c].stopReason = "end_turn"

\* no line of the text carries a noise tag, and it has no outer whitespace
NoNoise(t) == \A k \in DOMAIN Split(t) : KeepLine(Split(t)[k])
Trimmed(t) == t # <<>> /\ ~IsSpace(t[1]) /\ ~IsSpace(t[Len(t)])

\* C7: when the 60 s timer of an invocation fires while its child has not
\* exited and the invocation was not cancelled, the child is sent SIGTERM and
\* the invocation resolves with the filtered, trimmed output so far if that
\* is not empty, and is rejected as a timeout otherwise.
C7_TimeoutOutcome ==
    [][ \A c \in DOMAIN inv :
          (inv[c].timer /\ ~inv'[c].timer /\ inv[c].proc = "running" /\ ~inv[c].aborted)
            => LET t == cleanOutput(inv[c].outputBuffer)
                   p == inv'[c].promise
               IN  /\ inv'[c].termSent
                   /\ IF t # <<>>
                      THEN /\ p.state = "resolved" /\ p.value = TextValue(t)
                           /\ NoNoise(p.value.text) /\ Trimmed(p.value.text)
                      ELSE /\ p.state = "rejected"
                           /\ p.value.kind = "Timeout waiting for response from Qwen Code" ]_vars

\* C7 witness: one invocation timed out with partial output and another one
\* timed out with none, both children still running
C7_Witness ==
    \E c, d \in DOMAIN inv :
        /\ inv[c].promise.by = "timeout-partial" /\ inv[c].proc = "running"
        /\ inv[d].promise.by = "timeout" /\ inv[d].proc = "running"


\* C8: when a prompt call returns and no other prompt of its session is in
\* flight, the session holds neither a cancellation handle nor a process
\* handle.
C8_HandlesClearedOnReturn ==
    [][ \A c \in DOMAIN inv' :
          LET sid == inv'[c].sid
              returns == /\ inv'[c].phase = "returned"
                         /\ (c \in DOMAIN inv => inv[c].phase # "returned")
              alone == \A d \in DOMAIN inv' :
                          inv'[d].sid = sid => inv'[d].phase = "returned"
          IN  (returns /\ alone) =>
                 /\ sessions'[sid].pendingPrompt = 0
                 /\ sessions'[sid].qwenProcess = 0 ]_vars


\* C9: no notification derived from a child's standard output or standard
\* error is sent once the invocation has reached its terminal resolution.
C9_NoPartialAfterResolution ==
    [][ \A k \in DOMAIN out' :
          out'[k].src \in {"stdout", "stderr"}
            => /\ out'[k].inv \in DOMAIN inv
               /\ inv[out'[k].inv].promise.state = "pending" ]_vars

\* C10: an invocation has one terminal outcome: once its promise is settled
\* no later exit, error, abort or timer event changes it, the stop reason a
\* prompt call returned never changes, and the assistant turn of a prompt,
\* if any, is the text of that one outcome.
C10_SingleOutcome ==
    [][ \A c \in DOMAIN inv :
          LET h == sessions'[inv[c].sid].conversationHistory
          IN  /\ inv[c].promise.state # "pending" => inv'[c].promise = inv[c].promise
              /\ inv[c].phase = "returned" =>
                    /\ inv'[c].phase = "returned"
                    /\ inv'[c].stopReason = inv[c].stopReason
              /\ Cardinality(AssistantTurns(h, c)) <= 1
              /\ \A k \in AssistantTurns(h, c) :
                    /\ inv'[c].promise.state = "resolved"
                    /\ h[k].text = inv'[c].promise.value.text ]_vars

\* C10 witness: the child's exit event arrived after the invocation had
\* already been settled by its abort handler or by its timer
C10_Witness ==
    \E c \in DOMAIN inv :
        /\ inv[c].promise.by \in {"abort", "timeout", "timeout-partial"}
        /\ inv[c].proc = "exited"
        /\ inv[c].phase = "returned"


\* C11: when the child of an invocation that was neither cancelled nor timed
\* out exits with status 0, the invocation resolves with the accumulated
\* standard output without its noise lines and trimmed, or with the literal
\* "Request completed successfully." when that text is empty, and the prompt
\* call returns "end_turn".
C11_ExitZeroResolution ==
    [][ \A c \in DOMAIN inv :
          (Exit(c, [code |-> "0", signal |-> Null])
              /\ ~inv[c].aborted /\ ~inv[c].killed)
            => LET t == cleanOutput(inv[c].outputBuffer)
                   p == inv'[c].promise
               IN  /\ p.state = "resolved"
                   /\ IF t # <<>>
                      THEN p.value = TextValue(t) /\ NoNoise(t) /\ Trimmed(t)
                      ELSE p.value = TextValue(<<"Request completed successfully.">>)
                   /\ inv'[c].phase = "returned"
                   /\ inv'[c].stopReason = "end_turn" ]_vars

\* C11 witness: a child that wrote a noise line between two lines of content
\* exited with status 0 and the prompt returned with the two lines
C11_Witness ==
    \E c \in DOMAIN inv :
        /\ inv[c].proc = "exited"
        /\ ~inv[c].aborted /\ ~inv[c].killed
        /\ Includes(inv[c].outputBuffer, DebugTag)
        /\ inv[c].promise.value = TextValue(<<"h", NL, "w">>)
        /\ inv[c].stopReason = "end_turn"


\* entries of an invocation's notification log as a set
SentSet(i) == {i.sent[k] : k \in DOMAIN i.sent}

\* C12: a failed delivery of a notification changes no invocation's outcome
\* and no prompt's stop reason (a prompt waiting for the delivery of its
\* error notice returns "end_turn"), the notification is not sent again, and
\* the stderr handler that waited for the delivery goes on to send its next
\* line.
C12_DeliveryFailureHarmless ==
    [][ (reply'.op = "sessionUpdate" /\ reply'.error = "delivery failed")
          => /\ \A c \in DOMAIN inv :
                   /\ inv'[c].promise = inv[c].promise
                   /\ inv[c].phase = "awaitProc" => inv'[c].phase = "awaitProc"
                   /\ inv[c].phase = "returned" => inv'[c].stopReason = inv[c].stopReason
                   /\ (inv[c].phase = "awaitSend" /\ inv'[c].phase # "awaitSend")
                         => inv'[c].phase = "returned" /\ inv'[c].stopReason = "end_turn"
             /\ \A k \in DOMAIN out' :
                   [src |-> out'[k].src, text |-> out'[k].text] \notin SentSet(inv[out'[k].inv])
             /\ \/ \E c \in DOMAIN inv :
                      /\ inv[c].phase = "awaitSend" /\ inv'[c].phase = "returned"
                      /\ out' = <<>> /\ stderrQ' = stderrQ
                \/ \E k \in DOMAIN stderrQ :
                      LET h == stderrQ[k]
                      IN  out' = << [sessionId |-> inv[h.inv].sid, inv |-> h.inv,
                                     src |-> "stderr", text |-> InfoText(Head(h.lines))] >> ]_vars

\* C12 witness: the delivery of the first of three stderr lines failed, the
\* handler has sent the second one and still holds the third
C12_Witness ==
    /\ reply.op = "sessionUpdate" /\ reply.error = "delivery failed"
    /\ \E k \in DOMAIN out : out[k].src = "stderr" /\ out[k].text = InfoText(<<"2">>)
    /\ \E k \in DOMAIN stderrQ : stderrQ[k].lines = << <<"3">> >>


\* C13: a session that holds a process handle also holds a cancellation
\* handle.
C13_ProcessImpliesCancellable ==
    \A sid \in DOMAIN sessions :
        sessions[sid].qwenProcess # 0 => sessions[sid].pendingPrompt # 0


\* invocation c returns in the step
Returns(c) ==
    /\ inv'[c].phase = "returned"
    /\ c \in DOMAIN inv => inv[c].phase # "returned"

\* the step handles an event of invocation c: its start, its abort, its
\* child's exit or error, its timer
OwnEvent(c) == c \notin DOMAIN inv \/ inv'[c] # inv[c]

\* the step handles a cancel call on session sid
CancelCall(sid) == reply'.op = "cancel" /\ reply'.sessionId = sid

\* C14: the cancellation handle of a session is cleared only by the return
\* of the prompt call that installed it or by a cancel call on the session,
\* and the process handle only by an event of the invocation that installed
\* it (its abort, its child's exit or error, its timer) or by such a cancel
\* call; an earlier invocation's return, exit event or timer clears neither.
C14_HandlesClearedByOwner ==
    [][ \A sid \in DOMAIN sessions :
          LET accepted == reply'.op = "prompt" /\ reply'.sessionId = sid
              p == IF accepted THEN Len(inv') ELSE sessions[sid].pendingPrompt
              q == IF accepted THEN Len(inv') ELSE sessions[sid].qwenProcess
          IN  /\ (p # 0 /\ sessions'[sid].pendingPrompt # p)
                    => Returns(p) \/ CancelCall(sid)
              /\ (q # 0 /\ sessions'[sid].qwenProcess # q)
                    => OwnEvent(q) \/ CancelCall(sid) ]_vars


\* C15: when the cancellation signal of an invocation fires while the child
\* it spawned is running, the child is sent SIGTERM; and every running child
\* either was sent SIGTERM or has an armed timer whose guard still passes.
C15_AbortTerminatesChild ==
    [][ \A c \in DOMAIN inv :
          /\ (~inv[c].aborted /\ inv'[c].aborted /\ inv'[c].proc = "running")
                => inv'[c].termSent
          /\ inv'[c].proc = "running"
                => \/ inv'[c].termSent
                   \/ inv'[c].timer /\ ~inv'[c].aborted /\ ~inv'[c].killed ]_vars


\* a is b with some characters left out, the rest in the same order
RECURSIVE IsSubseq(_, _)
IsSubseq(a, b) ==
    IF a = <<>> THEN TRUE
    ELSE IF b = <<>> THEN FALSE
    ELSE IF Head(a) = Head(b) THEN IsSubseq(Tail(a), Tail(b))
    ELSE IsSubseq(a, Tail(b))

\* the stream text carried by one notification: the chunk for standard
\* output, the line inside `[INFO] ${line}\n` for standard error
Carried(n) ==
    IF n.src = "stderr"
    THEN SubSeq(n.text, Len(InfoText(<<>>)), Len(n.text) - 1)
    ELSE n.text

\* the stream text carried by the notifications of one source, in the order
\* they were handed to the client
RECURSIVE Streamed(_, _)
Streamed(log, src) ==
    IF log = <<>> THEN <<>>
    ELSE IF Head(log).src = src THEN Carried(Head(log)) \o Streamed(Tail(log), src)
    ELSE Streamed(Tail(log), src)

\* C16: within one invocation the notifications derived from one stream are
\* handed to the client in the order the stream produced their text: what
\* they carry, put together in sending order, is the text received from the
\* stream with parts left out and nothing moved.
C16_StreamOrderPreserved ==
    \A c \in DOMAIN inv :
        /\ IsSubseq(Streamed(inv[c].sent, "stdout"), inv[c].outputBuffer)
        /\ IsSubseq(Streamed(inv[c].sent, "stderr"), inv[c].errorBuffer)


UserTurns(h, c) == {k \in DOMAIN h : h[k].role = "User" /\ h[k].inv = c}
TurnsOf(h, role) == {k \in DOMAIN h : h[k].role = role}

\* C17: the turn log of a session only grows at its end; every accepted
\* prompt has exactly one user turn, appended by the step that accepts it
\* (so before anything of its child is seen); an assistant turn is appended
\* only by a prompt that returns "end_turn" after its invocation resolved
\* with a text, never by a cancelled or failed one; and the assistant turns
\* never outnumber the user turns.
C17_TurnLogAppendOnly ==
    [][ \A sid \in DOMAIN sessions :
          LET h == sessions[sid].conversationHistory
              g == sessions'[sid].conversationHistory
              added == {k \in DOMAIN g : k > Len(h)}
          IN  /\ Len(g) >= Len(h) /\ SubSeq(g, 1, Len(h)) = h
              /\ \A c \in DOMAIN inv' :
                    inv'[c].sid = sid => Cardinality(UserTurns(g, c)) = 1
              /\ \A k \in added :
                    LET c == g[k].inv
                    IN  IF g[k].role = "User"
                        THEN /\ c \notin DOMAIN inv /\ c \in DOMAIN inv'
                             /\ g[k].text = PromptText
                        ELSE /\ g[k].role = "Assistant"
                             /\ Returns(c)
                             /\ inv'[c].stopReason = "end_turn"
                             /\ inv'[c].promise.state = "resolved"
                             /\ inv'[c].promise.value.kind = "text"
                             /\ g[k].text = inv'[c].promise.value.text
                             /\ g[k].text # <<>>
                             /\ ~inv'[c].aborted
                             /\ \E j \in UserTurns(g, c) : j < k
              /\ Cardinality(TurnsOf(g, "Assistant")) <= Cardinality(TurnsOf(g, "User")) ]_vars

\* C17 witness: one prompt of the session appended its assistant turn, a
\* cancelled one and a failed one have returned without appending any
C17_Witness ==
    \E b, c, d \in DOMAIN inv :
        LET h == sessions[inv[b].sid].conversationHistory
        IN  /\ inv[b].sid = inv[c].sid /\ inv[c].sid = inv[d].sid
            /\ AssistantTurns(h, b) # {}
            /\ inv[c].phase = "returned" /\ inv[c].aborted
            /\ AssistantTurns(h, c) = {}
            /\ inv[d].phase = "returned" /\ inv[d].promise.state = "rejected"
            /\ AssistantTurns(h, d) = {}


\* C18: however the child's standard output is cut into data events, the
\* text streamed to the client has no noise line, and whenever the child has
\* written whole lines it is exactly the non-noise lines written so far, in
\* order.
C18_StreamedOutputClean ==
    \A c \in DOMAIN inv :
        LET b == inv[c].outputBuffer
            streamed == Streamed(inv[c].sent, "stdout")
        IN  /\ NoNoise(streamed)
            /\ (b = <<>> \/ b[Len(b)] = NL) => streamed = cleanData(b)


\* C19: an invocation resolves as cancelled (with null) only if its own
\* cancellation signal fired; when its child ends with a non-zero status or
\* is killed by a signal while the invocation was neither cancelled nor
\* timed out, it is rejected as "Qwen Code failed" with the trimmed standard
\* error text, or with the exit code when there is none.
C19_FailureNotCancelled ==
    [][ \A c \in DOMAIN inv :
          /\ (inv'[c].promise.state = "resolved" /\ inv'[c].promise.value = NullValue)
                => inv'[c].aborted
          /\ \A st \in StreamExitStatuses :
                (Exit(c, st) /\ st.code # "0" /\ ~inv[c].aborted /\ ~inv[c].killed)
                  => /\ inv'[c].promise.state = "rejected"
                     /\ inv'[c].promise.value.kind = "Qwen Code failed"
                     /\ inv'[c].promise.value.text =
                            IF Trim(inv[c].errorBuffer) # <<>>
                            THEN Trim(inv[c].errorBuffer)
                            ELSE <<"Process exited with code", st.code>> ]_vars


\* the prompt call started last on a session, 0 if there was none
Latest(sid) ==
    IF Invs(sid) = {} THEN 0
    ELSE CHOOSE c \in Invs(sid) : \A d \in Invs(sid) : d <= c

\* C20: while the prompt call started last on a session has not returned
\* (and was not cancelled already), a cancel call on the session succeeds and
\* fires the cancellation signal of that prompt, also when that prompt
\* preempted an earlier one.
C20_LatestPromptCancellable ==
    [][ \A sid \in DOMAIN sessions :
          LET c == Latest(sid)
          IN  (CancelCall(sid) /\ c # 0 /\ inv[c].phase # "returned" /\ ~inv[c].aborted)
                 => reply'.error = "none" /\ inv'[c].aborted ]_vars

====
